---- MODULE Spec2Model ----
(***************************************************************************)
(* A model of the OpenAPI specification server (src/spec_server.py):       *)
(* the directory scan and its name derivation, the two metadata            *)
(* extractors, the YAML -> JSON transcoding, and the request handlers      *)
(* running against a specs directory that an external process changes.     *)
(*                                                                         *)
(* Python strings are TLA+ strings; a character is a string of length 1.   *)
(***************************************************************************)
EXTENDS Integers, Sequences, FiniteSets, TLC

VARIABLES
    fs,                 \* the specs directory: file name -> content, or Absent
    started,            \* whether startup_event has run
    discovered_specs,   \* the module global: sequence of <<name, file>> (an insertion-ordered dict)
    req,                \* the request being handled (route, name, position, locals)
    resp,               \* the last response sent
    fin,                \* input of the pure function under check
    fout,               \* its output
    fpc                 \* position of the pure-function run

vars == <<fs, started, discovered_specs, req, resp, fin, fout, fpc>>

serverVars == <<fs, started, discovered_specs, req, resp>>
funcVars == <<fin, fout, fpc>>

-----------------------------------------------------------------------------
(* Python str operations                                                   *)

\* The characters the model uses, in code-point order.
Alphabet == " !,-./0123456789:;?ABCDEFGHIJKLMNOPQRSTUVWXYZ_abcdefghijklmnopqrstuvwxyz{}"

Char(s, i) == SubSeq(s, i, i)

Ord(c) == CHOOSE i \in 1..Len(Alphabet) : Char(Alphabet, i) = c

IsUpper(c) == Ord(c) >= Ord("A") /\ Ord(c) <= Ord("Z")
IsLowerCh(c) == Ord(c) >= Ord("a") /\ Ord(c) <= Ord("z")
IsAlpha(c) == IsUpper(c) \/ IsLowerCh(c)

LowerCh(c) == IF IsUpper(c) THEN Char(Alphabet, Ord(c) - Ord("A") + Ord("a")) ELSE c
UpperCh(c) == IF IsLowerCh(c) THEN Char(Alphabet, Ord(c) - Ord("a") + Ord("A")) ELSE c

\* str.lower()
RECURSIVE Lower(_)
Lower(s) == IF s = "" THEN "" ELSE LowerCh(Char(s, 1)) \o Lower(SubSeq(s, 2, Len(s)))

\* str.title(): the first letter of every run of letters in upper case, the others in lower case
RECURSIVE TitleFrom(_, _)
TitleFrom(s, prevAlpha) ==
    IF s = "" THEN ""
    ELSE LET c == Char(s, 1)
         IN  (IF prevAlpha THEN LowerCh(c) ELSE UpperCh(c))
                 \o TitleFrom(SubSeq(s, 2, Len(s)), IsAlpha(c))

Title(s) == TitleFrom(s, FALSE)

\* s.startswith(p)
StartsWith(s, p) == Len(p) <= Len(s) /\ SubSeq(s, 1, Len(p)) = p

\* s.replace(old, new) for a non-empty old: every non-overlapping occurrence, left to right
RECURSIVE Replace(_, _, _)
Replace(s, old, new) ==
    IF s = "" THEN ""
    ELSE IF StartsWith(s, old)
         THEN new \o Replace(SubSeq(s, Len(old) + 1, Len(s)), old, new)
         ELSE Char(s, 1) \o Replace(SubSeq(s, 2, Len(s)), old, new)

InChars(c, chars) == \E i \in 1..Len(chars) : Char(chars, i) = c

RECURSIVE LStrip(_, _)
LStrip(s, chars) ==
    IF s # "" /\ InChars(Char(s, 1), chars) THEN LStrip(SubSeq(s, 2, Len(s)), chars) ELSE s

RECURSIVE RStrip(_, _)
RStrip(s, chars) ==
    IF s # "" /\ InChars(Char(s, Len(s)), chars) THEN RStrip(SubSeq(s, 1, Len(s) - 1), chars) ELSE s

\* s.strip(chars)
Strip(s, chars) == RStrip(LStrip(s, chars), chars)

\* s.split(sep) for a one-character sep: empty pieces are kept
RECURSIVE SplitAcc(_, _, _)
SplitAcc(s, sep, cur) ==
    IF s = "" THEN <<cur>>
    ELSE IF Char(s, 1) = sep
         THEN <<cur>> \o SplitAcc(SubSeq(s, 2, Len(s)), sep, "")
         ELSE SplitAcc(SubSeq(s, 2, Len(s)), sep, cur \o Char(s, 1))

SplitOn(s, sep) == SplitAcc(s, sep, "")

\* s.split(): on runs of whitespace, no empty pieces
Words(s) == SelectSeq(SplitOn(s, " "), LAMBDA w : w # "")

\* s < t in Python: by code point, a proper prefix first
RECURSIVE StrLess(_, _)
StrLess(s, t) ==
    IF t = "" THEN FALSE
    ELSE IF s = "" THEN TRUE
    ELSE IF Char(s, 1) = Char(t, 1) THEN StrLess(SubSeq(s, 2, Len(s)), SubSeq(t, 2, Len(t)))
    ELSE Ord(Char(s, 1)) < Ord(Char(t, 1))

\* seq[:n]
Take(seq, n) == SubSeq(seq, 1, IF Len(seq) < n THEN Len(seq) ELSE n)

Range(seq) == {seq[i] : i \in 1..Len(seq)}

\* sorted(set): the elements of a finite set of strings in ascending order
RECURSIVE SortedStrs(_)
SortedStrs(S) ==
    IF S = {} THEN <<>>
    ELSE LET m == CHOOSE x \in S : \A y \in S : y = x \/ StrLess(x, y)
         IN  <<m>> \o SortedStrs(S \ {m})

-----------------------------------------------------------------------------
(* pathlib                                                                 *)

\* index of the last "." of a name, 0 when it has none (1-based)
RECURSIVE LastDot(_, _)
LastDot(name, i) == IF i = 0 THEN 0 ELSE IF Char(name, i) = "." THEN i ELSE LastDot(name, i - 1)

\* PurePath.suffix: from the last dot, unless the dot is the first or the last character
Suffix(name) ==
    LET i == LastDot(name, Len(name))
    IN  IF i > 1 /\ i < Len(name) THEN SubSeq(name, i, Len(name)) ELSE ""

\* PurePath.stem
Stem(name) ==
    LET i == LastDot(name, Len(name))
    IN  IF i > 1 /\ i < Len(name) THEN SubSeq(name, 1, i - 1) ELSE name

EndsWith(s, p) == Len(p) <= Len(s) /\ SubSeq(s, Len(s) - Len(p) + 1, Len(s)) = p

\* SPECS_DIR.glob("*" + ext)
GlobMatches(name, ext) == EndsWith(name, ext)

-----------------------------------------------------------------------------
(* discover_specs: the name of a spec file                                 *)

DeriveName(stem) ==
    LET spec_name ==
            Strip(Replace(Replace(Replace(Replace(Replace(stem,
                "-openapi", ""), "_openapi", ""), "openapi", ""), "-", "_"), ".", "_"), "_")
    IN  IF spec_name = "" THEN stem ELSE spec_name

-----------------------------------------------------------------------------
(* Document trees: what yaml.safe_load and json.load return               *)

Null == [t |-> "null"]
S(s) == [t |-> "str", s |-> s]
I(n) == [t |-> "int", n |-> n]
B(b) == [t |-> "bool", b |-> b]
D(d) == [t |-> "date", d |-> d]          \* a YAML timestamp: datetime.date
L(q) == [t |-> "seq", q |-> q]           \* a list
M(m) == [t |-> "map", m |-> m]           \* a dict: sequence of <<key, value>>, keys distinct

\* The outcome of a Python expression: a value, or an exception raised
Ok(v) == [ok |-> TRUE, val |-> v]
Raise(e) == [ok |-> FALSE, exc |-> e]

IsStr(v) == v.t = "str"
IsMap(v) == v.t = "map"

\* bool(v)
Truthy(v) ==
    CASE v.t = "null" -> FALSE
      [] v.t = "str"  -> v.s # ""
      [] v.t = "int"  -> v.n # 0
      [] v.t = "bool" -> v.b
      [] v.t = "seq"  -> v.q # <<>>
      [] v.t = "map"  -> v.m # <<>>
      [] OTHER        -> TRUE

HasKey(d, k) == \E i \in 1..Len(d.m) : d.m[i][1] = S(k)

\* d.get(k, default) on a dict d
Get(d, k, default) ==
    IF HasKey(d, k) THEN d.m[CHOOSE i \in 1..Len(d.m) : d.m[i][1] = S(k)][2] ELSE default

-----------------------------------------------------------------------------
(* extract_capabilities_from_spec                                          *)

HttpMethods == {"get", "post", "put", "delete", "patch"}

CapCommonWords == {"get", "post", "put", "delete", "patch", "the", "and", "for", "with",
                   "from", "this", "that", "are", "you", "all", "can", "will", "one", "use"}

MinCapLen == 2
MinSummaryWordLen == 3
MaxSummaryWords == 3

\* path_segments, and the segments kept
PathSegments(path_lower) ==
    SelectSeq(SplitOn(path_lower, "/"), LAMBDA seg : seg # "" /\ ~StartsWith(seg, "{"))

SegmentCaps(path_lower) ==
    SelectSeq(PathSegments(path_lower), LAMBDA seg : Len(seg) > MinCapLen)

SummaryCaps(summary) ==
    IF summary # ""
    THEN Take(SelectSeq(Words(summary), LAMBDA w : Len(w) > MinSummaryWordLen), MaxSummaryWords)
    ELSE <<>>

StrVals(seq) == [i \in 1..Len(seq) |-> S(seq[i])]

\* The body of the inner loop for one (method, operation) of one path: the values
\* appended to capabilities, or the exception raised.
OperationCaps(path, method, operation) ==
    IF ~IsStr(method) THEN Raise("AttributeError")               \* method.lower()
    ELSE IF Lower(method.s) \notin HttpMethods THEN Ok(<<>>)
    ELSE IF ~IsMap(operation) THEN Raise("AttributeError")       \* operation.get
    ELSE LET operation_id == Get(operation, "operationId", S(""))
             summary == Get(operation, "summary", S(""))
             description == Get(operation, "description", S(""))
         IN  IF ~IsStr(summary) THEN Raise("AttributeError")     \* .lower()
             ELSE IF ~IsStr(description) THEN Raise("AttributeError")
             ELSE IF ~IsStr(path) THEN Raise("AttributeError")   \* path.lower()
             ELSE Ok((IF Truthy(operation_id) THEN <<operation_id>> ELSE <<>>)
                     \o StrVals(SegmentCaps(Lower(path.s)))
                     \o StrVals(SummaryCaps(Lower(summary.s))))

\* for method, operation in path_item.items(), from the i-th item on
RECURSIVE PathItemCaps(_, _, _)
PathItemCaps(path, items, i) ==
    IF i > Len(items) THEN Ok(<<>>)
    ELSE LET here == OperationCaps(path, items[i][1], items[i][2])
         IN  IF ~here.ok THEN here
             ELSE LET rest == PathItemCaps(path, items, i + 1)
                  IN  IF ~rest.ok THEN rest ELSE Ok(here.val \o rest.val)

\* for path, path_item in paths.items(), from the i-th item on
RECURSIVE PathsCaps(_, _)
PathsCaps(items, i) ==
    IF i > Len(items) THEN Ok(<<>>)
    ELSE IF ~IsMap(items[i][2]) THEN Raise("AttributeError")     \* path_item.items()
    ELSE LET here == PathItemCaps(items[i][1], items[i][2].m, 1)
         IN  IF ~here.ok THEN here
             ELSE LET rest == PathsCaps(items, i + 1)
                  IN  IF ~rest.ok THEN rest ELSE Ok(here.val \o rest.val)

\* a faulty variant, for comparison: the common words are not filtered out
FilterCapsKeepCommon(capabilities) ==
    IF \E v \in Range(capabilities) : ~IsStr(v) THEN Raise("TypeError")
    ELSE Ok(SortedStrs({v.s : v \in {w \in Range(capabilities) : Len(w.s) > MinCapLen}}))

\* lines 94-96: set(), the filter, sorted(). A capability that is not a string
\* (an operationId that is a number, a list, ...) makes set() or len() raise.
FilterCaps(capabilities) ==
    IF \E v \in Range(capabilities) : ~IsStr(v) THEN Raise("TypeError")
    ELSE Ok(SortedStrs({v.s : v \in {w \in Range(capabilities) :
                                        w.s \notin CapCommonWords /\ Len(w.s) > MinCapLen}}))

extract_capabilities_from_spec(spec_data) ==
    IF ~IsMap(spec_data) THEN Raise("AttributeError")            \* spec_data.get
    ELSE LET paths == Get(spec_data, "paths", M(<<>>))
         IN  IF ~IsMap(paths) THEN Raise("AttributeError")       \* paths.items()
             ELSE LET capabilities == PathsCaps(paths.m, 1)
                  IN  IF ~capabilities.ok THEN capabilities ELSE FilterCaps(capabilities.val)

-----------------------------------------------------------------------------
(* extract_tags_from_spec                                                  *)

TagCommonWords == {"api", "the", "and", "for", "with", "from", "this", "that", "are", "you",
                   "all", "can", "will", "one", "use", "get", "via", "about", "information",
                   "data", "service", "services"}

TagPunctuation == ".,!?;:"
MinTagWordLen == 3
MaxTextTags == 5

\* for tag in spec_tags, from the i-th element on: the names appended, or the exception
RECURSIVE DeclaredTags(_, _)
DeclaredTags(q, i) ==
    IF i > Len(q) THEN Ok(<<>>)
    ELSE LET tag == q[i]
             here == IF IsMap(tag)
                     THEN LET name == Get(tag, "name", S(""))
                          IN  IF ~IsStr(name) THEN Raise("AttributeError")      \* .lower()
                              ELSE IF Lower(name.s) # "" THEN Ok(<<Lower(name.s)>>) ELSE Ok(<<>>)
                     ELSE IF IsStr(tag) THEN Ok(<<Lower(tag.s)>>)
                     ELSE Ok(<<>>)
         IN  IF ~here.ok THEN here
             ELSE LET rest == DeclaredTags(q, i + 1)
                  IN  IF ~rest.ok THEN rest ELSE Ok(here.val \o rest.val)

\* What "for tag in spec_tags" iterates over: a list's elements, a dict's keys,
\* a string's characters; anything else is not iterable.
IterTags(spec_tags) ==
    CASE spec_tags.t = "seq" -> Ok(spec_tags.q)
      [] spec_tags.t = "map" -> Ok([i \in 1..Len(spec_tags.m) |-> spec_tags.m[i][1]])
      [] spec_tags.t = "str" -> Ok([i \in 1..Len(spec_tags.s) |-> S(Char(spec_tags.s, i))])
      [] OTHER -> Raise("TypeError")

\* line 122: the length and the common words are tested on the word as split,
\* and the punctuation is stripped from the words that pass
MeaningfulWords(all_text) ==
    LET kept == SelectSeq(Words(all_text),
                          LAMBDA word : Len(word) > MinTagWordLen /\ word \notin TagCommonWords)
    IN  [i \in 1..Len(kept) |-> Strip(kept[i], TagPunctuation)]

\* lines 113-114: spec_data.get('info', {}).get(field, '').lower()
InfoText(spec_data, field) ==
    LET info == Get(spec_data, "info", M(<<>>))
    IN  IF ~IsMap(info) THEN Raise("AttributeError")
        ELSE LET v == Get(info, field, S(""))
             IN  IF ~IsStr(v) THEN Raise("AttributeError") ELSE Ok(Lower(v.s))

\* The list returned has the order of a Python set, which no caller may rely on:
\* the result is the set of its elements.
extract_tags_from_spec(spec_data, spec_name) ==
    IF ~IsMap(spec_data) THEN Raise("AttributeError")
    ELSE LET iter == IterTags(Get(spec_data, "tags", L(<<>>)))
         IN  IF ~iter.ok THEN iter
             ELSE LET tags == DeclaredTags(iter.val, 1)
                      title == InfoText(spec_data, "title")
                      description == InfoText(spec_data, "description")
                  IN  IF ~tags.ok THEN tags
                      ELSE IF ~title.ok THEN title
                      ELSE IF ~description.ok THEN description
                      ELSE Ok(Range(tags.val)
                              \cup Range(Take(MeaningfulWords(title.val \o " " \o description.val),
                                              MaxTextTags)))

-----------------------------------------------------------------------------
(* json.dumps(obj, indent=2) and json.loads                                *)

Digits == "0123456789"

\* str(n) for an int
RECURSIVE NatToStr(_)
NatToStr(n) == IF n < 10 THEN Char(Digits, n + 1)
               ELSE NatToStr(n \div 10) \o Char(Digits, (n % 10) + 1)

IntToStr(n) == IF n < 0 THEN "-" \o NatToStr(0 - n) ELSE NatToStr(n)

RECURSIVE Spaces(_)
Spaces(n) == IF n = 0 THEN "" ELSE " " \o Spaces(n - 1)

JsonIndent == 2

Quoted(s) == "\"" \o s \o "\""

\* A dict key as the encoder writes it: a str as it is, an int, a bool or None
\* turned into a string, any other key refused.
JsonKey(k) ==
    CASE k.t = "str"  -> Ok(Quoted(k.s))
      [] k.t = "int"  -> Ok(Quoted(IntToStr(k.n)))
      [] k.t = "bool" -> Ok(Quoted(IF k.b THEN "true" ELSE "false"))
      [] k.t = "null" -> Ok(Quoted("null"))
      [] OTHER        -> Raise("TypeError")

RECURSIVE JsonDumpsAt(_, _)
RECURSIVE JsonMembers(_, _, _)
RECURSIVE JsonElements(_, _, _)

\* the members of a dict from the i-th on, one per line at this level
JsonMembers(m, i, level) ==
    IF i > Len(m) THEN Ok("")
    ELSE LET k == JsonKey(m[i][1])
             v == JsonDumpsAt(m[i][2], level + 1)
         IN  IF ~k.ok THEN k
             ELSE IF ~v.ok THEN v
             ELSE LET rest == JsonMembers(m, i + 1, level)
                  IN  IF ~rest.ok THEN rest
                      ELSE Ok((IF i > 1 THEN "," ELSE "") \o "\n" \o Spaces(JsonIndent * level)
                              \o k.val \o ": " \o v.val \o rest.val)

JsonElements(q, i, level) ==
    IF i > Len(q) THEN Ok("")
    ELSE LET v == JsonDumpsAt(q[i], level + 1)
         IN  IF ~v.ok THEN v
             ELSE LET rest == JsonElements(q, i + 1, level)
                  IN  IF ~rest.ok THEN rest
                      ELSE Ok((IF i > 1 THEN "," ELSE "") \o "\n" \o Spaces(JsonIndent * level)
                              \o v.val \o rest.val)

\* the text of value v, whose members are indented to depth level
JsonDumpsAt(v, level) ==
    CASE v.t = "null" -> Ok("null")
      [] v.t = "bool" -> Ok(IF v.b THEN "true" ELSE "false")
      [] v.t = "int"  -> Ok(IntToStr(v.n))
      [] v.t = "str"  -> Ok(Quoted(v.s))
      [] v.t = "seq"  ->
            IF v.q = <<>> THEN Ok("[]")
            ELSE LET body == JsonElements(v.q, 1, level)
                 IN  IF ~body.ok THEN body
                     ELSE Ok("[" \o body.val \o "\n" \o Spaces(JsonIndent * (level - 1)) \o "]")
      [] v.t = "map"  ->
            IF v.m = <<>> THEN Ok("{}")
            ELSE LET body == JsonMembers(v.m, 1, level)
                 IN  IF ~body.ok THEN body
                     ELSE Ok("{" \o body.val \o "\n" \o Spaces(JsonIndent * (level - 1)) \o "}")
      [] OTHER -> Raise("TypeError")       \* Object of type date is not JSON serializable

\* json.dumps(yaml_content, indent=2)
JsonDumps(v) == JsonDumpsAt(v, 1)

\* d[k] = v on a dict: a key already there keeps its place and takes the new value
DictSet(m, k, v) ==
    IF \E i \in 1..Len(m) : m[i][1] = k
    THEN [i \in 1..Len(m) |-> IF m[i][1] = k THEN <<k, v>> ELSE m[i]]
    ELSE Append(m, <<k, v>>)

RECURSIVE SkipWs(_, _)
SkipWs(text, i) ==
    IF i <= Len(text) /\ Char(text, i) \in {" ", "\n"} THEN SkipWs(text, i + 1) ELSE i

\* the index of the first character from i on that is not in chars
RECURSIVE SkipIn(_, _, _)
SkipIn(text, i, chars) ==
    IF i <= Len(text) /\ InChars(Char(text, i), chars) THEN SkipIn(text, i + 1, chars) ELSE i

\* the index of the next double quote from i on
RECURSIVE NextQuote(_, _)
NextQuote(text, i) == IF Char(text, i) = "\"" THEN i ELSE NextQuote(text, i + 1)

RECURSIVE StrToNat(_, _)
StrToNat(s, acc) ==
    IF s = "" THEN acc
    ELSE StrToNat(SubSeq(s, 2, Len(s)),
                  10 * acc + (CHOOSE d \in 0..9 : Char(Digits, d + 1) = Char(s, 1)))

RECURSIVE ParseValue(_, _)
RECURSIVE ParseMembers(_, _, _)
RECURSIVE ParseElements(_, _, _)

\* the members of an object from position i on; acc holds those read
ParseMembers(text, i, acc) ==
    LET j == SkipWs(text, i)
    IN  IF Char(text, j) = "}" THEN [val |-> M(acc), next |-> j + 1]
        ELSE IF Char(text, j) = "," THEN ParseMembers(text, j + 1, acc)
        ELSE LET e == NextQuote(text, j + 1)
                 key == SubSeq(text, j + 1, e - 1)
                 c == SkipWs(text, e + 1)                   \* the colon
                 v == ParseValue(text, c + 1)
             IN  ParseMembers(text, v.next, DictSet(acc, S(key), v.val))

ParseElements(text, i, acc) ==
    LET j == SkipWs(text, i)
    IN  IF Char(text, j) = "]" THEN [val |-> L(acc), next |-> j + 1]
        ELSE IF Char(text, j) = "," THEN ParseElements(text, j + 1, acc)
        ELSE LET v == ParseValue(text, j)
             IN  ParseElements(text, v.next, Append(acc, v.val))

\* the JSON value that starts at position i (after white space), and where it ends
ParseValue(text, i) ==
    LET j == SkipWs(text, i)
        c == Char(text, j)
    IN  CASE c = "{" -> ParseMembers(text, j + 1, <<>>)
          [] c = "[" -> ParseElements(text, j + 1, <<>>)
          [] c = "\"" -> LET e == NextQuote(text, j + 1)
                        IN  [val |-> S(SubSeq(text, j + 1, e - 1)), next |-> e + 1]
          [] c = "t" -> [val |-> B(TRUE), next |-> j + 4]
          [] c = "f" -> [val |-> B(FALSE), next |-> j + 5]
          [] c = "n" -> [val |-> Null, next |-> j + 4]
          [] c = "-" -> LET e == SkipIn(text, j + 1, Digits)
                        IN  [val |-> I(0 - StrToNat(SubSeq(text, j + 1, e - 1), 0)), next |-> e]
          [] OTHER   -> LET e == SkipIn(text, j, Digits)
                        IN  [val |-> I(StrToNat(SubSeq(text, j, e - 1), 0)), next |-> e]

\* json.loads(text) for a text json.dumps wrote
JsonLoads(text) == ParseValue(text, 1).val

\* a == b in Python on two trees: dicts compare without regard to key order
RECURSIVE DeepEq(_, _)
DeepEq(a, b) ==
    CASE a.t = "map" /\ b.t = "map" ->
            /\ Len(a.m) = Len(b.m)
            /\ \A i \in 1..Len(a.m) : \E j \in 1..Len(b.m) :
                    a.m[i][1] = b.m[j][1] /\ DeepEq(a.m[i][2], b.m[j][2])
      [] a.t = "seq" /\ b.t = "seq" ->
            /\ Len(a.q) = Len(b.q)
            /\ \A i \in 1..Len(a.q) : DeepEq(a.q[i], b.q[i])
      [] OTHER -> a = b

-----------------------------------------------------------------------------
(* The specs directory                                                     *)

\* What a file holds: text its parser refuses, or the text of a document tree
Absent == [kind |-> "absent"]
Malformed == [kind |-> "malformed"]
Doc(d) == [kind |-> "doc", doc |-> d]

DocWeather ==
    M(<< <<S("info"), M(<< <<S("title"), S("Weather API")>>,
                           <<S("description"), S("Forecast data. ")>> >>)>>,
         <<S("servers"), L(<< M(<< <<S("url"), S("http://w")>> >>) >>)>>,
         <<S("paths"), M(<< <<S("/weather/{id}"), M(<< <<S("get"), M(<<>>)>> >>)>> >>)>> >>)

\* a document the extractors raise on: "paths:" with nothing under it
DocNullPaths ==
    M(<< <<S("info"), M(<< <<S("title"), S("Pets")>> >>)>>, <<S("paths"), Null>> >>)

\* YAML only: an unquoted response code is an int key
DocIntKey ==
    M(<< <<S("paths"), M(<< <<S("/pets"), M(<< <<S("get"),
            M(<< <<S("responses"), M(<< <<I(200), S("ok")>> >>)>> >>)>> >>)>> >>)>> >>)

\* YAML only: an unquoted date is a datetime.date
DocDate ==
    M(<< <<S("info"), M(<< <<S("title"), S("Dated")>>, <<S("version"), D("2024-01-01")>> >>)>> >>)

\* The files that may appear in SPECS_DIR, in the order the directory lists them
DirFiles == <<"w-openapi.yaml", ".yml", "p.json">>

FileNames == Range(DirFiles)

ContentsOf(file) ==
    CASE file = "w-openapi.yaml" -> {Malformed, Doc(DocWeather), Doc(DocNullPaths),
                                      Doc(DocIntKey), Doc(DocDate)}
      [] file = ".yml"           -> {Malformed, Doc(DocWeather)}
      [] file = "p.json"         -> {Malformed, Doc(DocWeather), Doc(DocNullPaths)}

Exists(file) == fs[file] # Absent

\* yaml.safe_load(f) / json.load(f) on the file's content
Load(content) == IF content = Malformed THEN Raise("ParseError") ELSE Ok(content.doc)

-----------------------------------------------------------------------------
(* discover_specs                                                          *)

GlobPatterns == <<".yaml", ".yml", ".json">>

\* SPECS_DIR.glob(pattern): the files present that match, in directory order
Glob(dir, ext) == SelectSeq(DirFiles, LAMBDA f : dir[f] # Absent /\ GlobMatches(f, ext))

\* specs[spec_name] = file_path for the files of a listing, from the i-th on
RECURSIVE ScanInto(_, _, _)
ScanInto(specs, files, i) ==
    IF i > Len(files) THEN specs
    ELSE ScanInto(DictSet(specs, DeriveName(Stem(files[i])), files[i]), files, i + 1)

discover_specs(dir) ==
    ScanInto(<<>>, Glob(dir, GlobPatterns[1]) \o Glob(dir, GlobPatterns[2])
                     \o Glob(dir, GlobPatterns[3]), 1)

IndexNames == {discovered_specs[i][1] : i \in 1..Len(discovered_specs)}

\* a faulty variant, for comparison: the handler scans the directory again on every request
LookupSpecRescan(spec_name) ==
    LET specs == discover_specs(fs)
    IN  IF \E i \in 1..Len(specs) : specs[i][1] = spec_name
        THEN Ok(specs[CHOOSE i \in 1..Len(specs) : specs[i][1] = spec_name][2])
        ELSE Raise("KeyError")

\* "spec_name not in discovered_specs" and discovered_specs[spec_name]
LookupSpec(spec_name) ==
    IF spec_name \in IndexNames
    THEN Ok(discovered_specs[CHOOSE i \in 1..Len(discovered_specs) :
                                discovered_specs[i][1] = spec_name][2])
    ELSE Raise("KeyError")

-----------------------------------------------------------------------------
(* GET /: one Collection per spec                                          *)

OpenapiUrl(spec_name) == "http://0.0.0.0:8001/" \o spec_name \o "/openapi.json"

\* lines 153-155: base_url from servers
BaseUrl(servers) ==
    IF ~Truthy(servers) THEN Ok(S(""))
    ELSE CASE servers.t = "seq" ->
                IF IsMap(servers.q[1]) THEN Ok(Get(servers.q[1], "url", S("")))
                ELSE Raise("AttributeError")                  \* servers[0].get
           [] servers.t = "map" ->
                IF \E i \in 1..Len(servers.m) : servers.m[i][1] = I(0)
                THEN LET first == servers.m[CHOOSE i \in 1..Len(servers.m) :
                                                servers.m[i][1] = I(0)][2]
                     IN  IF IsMap(first) THEN Ok(Get(first, "url", S("")))
                         ELSE Raise("AttributeError")
                ELSE Raise("KeyError")                        \* servers[0]
           [] servers.t = "str" -> Raise("AttributeError")    \* a str has no get
           [] OTHER -> Raise("TypeError")                     \* len(servers)

\* lines 172-179: the minimal collection of a spec that failed
FallbackCollection(spec_name) ==
    [name |-> S(Title(Replace(spec_name, "_", " "))),
     tags |-> {},
     description |-> Title(spec_name) \o " API",
     openapi_spec |-> OpenapiUrl(spec_name),
     capabilities |-> <<>>,
     base_url |-> S("")]

\* lines 149-165: the collection of a parsed document, or the exception raised
BuildCollection(spec_name, spec_data) ==
    IF ~IsMap(spec_data) THEN Raise("AttributeError")
    ELSE LET info == Get(spec_data, "info", M(<<>>))
             base_url == BaseUrl(Get(spec_data, "servers", L(<<>>)))
         IN  IF ~base_url.ok THEN base_url
             ELSE IF ~IsMap(info) THEN Raise("AttributeError")
             ELSE LET tags == extract_tags_from_spec(spec_data, spec_name)
                      description == Get(info, "description", S(Title(spec_name) \o " API"))
                      capabilities == extract_capabilities_from_spec(spec_data)
                  IN  IF ~tags.ok THEN tags
                      ELSE IF ~IsStr(description) THEN Raise("AttributeError")   \* .strip()
                      ELSE IF ~capabilities.ok THEN capabilities
                      ELSE Ok([name |-> Get(info, "title", S(Title(Replace(spec_name, "_", " ")))),
                               tags |-> tags.val,
                               description |-> Strip(description.s, " "),
                               openapi_spec |-> OpenapiUrl(spec_name),
                               capabilities |-> capabilities.val,
                               base_url |-> base_url.val])

SupportedSuffixes == {".json", ".yaml", ".yml"}

\* a faulty variant, for comparison: a spec that fails is left out of the listing
RootItemDropFailed(spec_name, spec_path, content) ==
    IF content = Absent THEN <<>>
    ELSE IF Lower(Suffix(spec_path)) \notin SupportedSuffixes THEN <<>>
    ELSE LET spec_data == Load(content)
         IN  IF ~spec_data.ok THEN <<>>
             ELSE LET collection == BuildCollection(spec_name, spec_data.val)
                  IN  IF ~collection.ok THEN <<>> ELSE <<collection.val>>

\* a faulty variant, for comparison: a spec whose file is gone at open() is left out, like one gone at exists()
RootItemSkipGone(spec_name, spec_path, content) ==
    IF content = Absent THEN <<>>
    ELSE IF Lower(Suffix(spec_path)) \notin SupportedSuffixes THEN <<>>
    ELSE LET spec_data == Load(content)
         IN  IF ~spec_data.ok THEN <<FallbackCollection(spec_name)>>
             ELSE LET collection == BuildCollection(spec_name, spec_data.val)
                  IN  IF ~collection.ok THEN <<FallbackCollection(spec_name)>>
                      ELSE <<collection.val>>

\* lines 141-179, after exists() held: what one spec adds to collections, given
\* what open() finds. A file gone by now makes open() raise; a suffix that is
\* none of the three is skipped; every exception gives the fallback.
RootItem(spec_name, spec_path, content) ==
    IF content = Absent THEN <<FallbackCollection(spec_name)>>
    ELSE IF Lower(Suffix(spec_path)) \notin SupportedSuffixes THEN <<>>
    ELSE LET spec_data == Load(content)
         IN  IF ~spec_data.ok THEN <<FallbackCollection(spec_name)>>
             ELSE LET collection == BuildCollection(spec_name, spec_data.val)
                  IN  IF ~collection.ok THEN <<FallbackCollection(spec_name)>>
                      ELSE <<collection.val>>

-----------------------------------------------------------------------------
(* GET /{spec_name}/info: the view of a parsed document                    *)

HasLen(v) == v.t \in {"map", "seq", "str"}
PyLen(v) == CASE v.t = "map" -> Len(v.m) [] v.t = "seq" -> Len(v.q) [] OTHER -> Len(v.s)

MaxListedPaths == 50

\* len(components.get(key, {}))
ComponentCount(components, key) ==
    IF ~IsMap(components) THEN Raise("AttributeError")
    ELSE LET c == Get(components, key, M(<<>>))
         IN  IF HasLen(c) THEN Ok(PyLen(c)) ELSE Raise("TypeError")

\* lines 351-364: the fields taken from the document, or the exception raised
InfoView(spec_name, spec_data) ==
    IF ~IsMap(spec_data) THEN Raise("AttributeError")
    ELSE LET info == Get(spec_data, "info", M(<<>>))
             paths == Get(spec_data, "paths", M(<<>>))
             components == Get(spec_data, "components", M(<<>>))
             schemas == ComponentCount(components, "schemas")
             security_schemes == ComponentCount(components, "securitySchemes")
         IN  IF ~IsMap(info) THEN Raise("AttributeError")
             ELSE IF ~HasLen(paths) THEN Raise("TypeError")              \* len(paths)
             ELSE IF PyLen(paths) <= MaxListedPaths /\ ~IsMap(paths)
                  THEN Raise("AttributeError")                           \* paths.keys()
             ELSE IF ~schemas.ok THEN schemas
             ELSE IF ~security_schemes.ok THEN security_schemes
             ELSE Ok([spec_name |-> spec_name,
                      title |-> Get(info, "title", S("Unknown")),
                      version |-> Get(info, "version", S("Unknown")),
                      description |-> Get(info, "description", S("")),
                      endpoints |-> PyLen(paths),
                      endpoint_paths |->
                          IF PyLen(paths) <= MaxListedPaths
                          THEN L([i \in 1..Len(paths.m) |-> paths.m[i][1]])
                          ELSE S(IntToStr(PyLen(paths)) \o " endpoints (too many to list)"),
                      schemas |-> schemas.val,
                      security_schemes |-> security_schemes.val,
                      servers |-> Get(spec_data, "servers", L(<<>>))])

-----------------------------------------------------------------------------
(* Responses                                                               *)

Idle == [pc |-> "idle"]
NoResponse == [status |-> 0]

HttpResponse(route, name, status, detail, body) ==
    [route |-> route, name |-> name, status |-> status, detail |-> detail, body |-> body]

UnknownDetail(spec_name) == "Specification '" \o spec_name \o "' not found"
MissingDetail(spec_path) == "Specification file not found: " \o spec_path

\* the detail of the 500 each handler's "except Exception" raises
ErrorPrefix(route) ==
    CASE route = "info"     -> "Error reading specification: "
      [] route = "download" -> "Error downloading specification: "
      [] OTHER              -> "Error serving specification: "

\* what the serving framework answers when a FileResponse finds no file to send
FrameworkError == "Internal Server Error"

\* yaml.dump(json_content, default_flow_style=False, sort_keys=False): the YAML
\* text of a tree, kept as the tree it denotes
YamlDump(v) == [yaml |-> v]

PerSpecRoutes == {"yaml", "json", "download", "info"}

RequestNames == {DeriveName(Stem(f)) : f \in FileNames} \cup {"unknown"}

\* a faulty variant, for comparison: a file in the requested format is parsed before it is served
PassthroughNever(route, spec_path) == FALSE

\* whether the handler answers with a FileResponse on the file itself
Passthrough(route, spec_path) ==
    \/ route = "download"
    \/ route = "yaml" /\ Lower(Suffix(spec_path)) \in {".yaml", ".yml"}
    \/ route = "json" /\ Lower(Suffix(spec_path)) = ".json"

\* The try block of get_spec_yaml and get_spec_json when the file is in the other
\* format, given what open() finds: the response.
Converted(route, spec_name, spec_path, content) ==
    IF Lower(Suffix(spec_path)) \notin SupportedSuffixes
    THEN HttpResponse(route, spec_name, 200, "", Null)        \* neither branch: returns None
    ELSE IF content = Absent
    THEN HttpResponse(route, spec_name, 500, ErrorPrefix(route) \o "FileNotFoundError", Null)
    ELSE LET parsed == Load(content)
         IN  IF ~parsed.ok
             THEN HttpResponse(route, spec_name, 500, ErrorPrefix(route) \o parsed.exc, Null)
             ELSE IF route = "yaml"
             THEN HttpResponse(route, spec_name, 200, "", YamlDump(parsed.val))
             ELSE LET json_content == JsonDumps(parsed.val)
                  IN  IF ~json_content.ok
                      THEN HttpResponse(route, spec_name, 500,
                                        ErrorPrefix(route) \o json_content.exc, Null)
                      ELSE HttpResponse(route, spec_name, 200, "", S(json_content.val))

\* lines 342-364 of get_spec_info, given what open() finds: the view, or the exception
InfoLoaded(spec_name, spec_path, content) ==
    IF content = Absent THEN Raise("FileNotFoundError")
    ELSE IF Lower(Suffix(spec_path)) \notin SupportedSuffixes THEN Raise("HTTPException")
    ELSE LET spec_data == Load(content)
         IN  IF ~spec_data.ok THEN spec_data ELSE InfoView(spec_name, spec_data.val)

-----------------------------------------------------------------------------
(* The server and the process that changes the specs directory            *)

Handling(pc, route, name, path, view) ==
    [pc |-> pc, route |-> route, name |-> name, path |-> path, view |-> view]

RootLoop(pc, i, collections) ==
    [pc |-> pc, route |-> "root", i |-> i, collections |-> collections]

Init ==
    /\ fs \in {f \in [FileNames -> {Absent, Malformed, Doc(DocWeather), Doc(DocNullPaths),
                                     Doc(DocIntKey), Doc(DocDate)}] :
                 \A file \in FileNames : f[file] \in ContentsOf(file) \cup {Absent}}
    /\ started = FALSE
    /\ discovered_specs = <<>>
    /\ req = Idle
    /\ resp = NoResponse
    /\ fin = Null /\ fout = Null /\ fpc = "unused"

\* an external process writes a spec file
FsWrite(file, content) ==
    /\ content \in ContentsOf(file)
    /\ fs[file] # content
    /\ fs' = [fs EXCEPT ![file] = content]
    /\ UNCHANGED <<started, discovered_specs, req, resp, funcVars>>

\* an external process removes a spec file
FsDelete(file) ==
    /\ fs[file] # Absent
    /\ fs' = [fs EXCEPT ![file] = Absent]
    /\ UNCHANGED <<started, discovered_specs, req, resp, funcVars>>

\* startup_event
Startup ==
    /\ ~started
    /\ started' = TRUE
    /\ discovered_specs' = discover_specs(fs)
    /\ UNCHANGED <<fs, req, resp, funcVars>>

\* a request arrives on one of the four per-spec routes
Request(route, name) ==
    /\ started
    /\ req = Idle
    /\ req' = Handling("lookup", route, name, "", Null)
    /\ resp' = NoResponse
    /\ UNCHANGED <<fs, started, discovered_specs, funcVars>>

\* "if spec_name not in discovered_specs" and the read of discovered_specs[spec_name]
Lookup ==
    /\ req.pc = "lookup"
    /\ LET spec_path == LookupSpec(req.name)
       IN  IF ~spec_path.ok
           THEN /\ resp' = HttpResponse(req.route, req.name, 404, UnknownDetail(req.name), Null)
                /\ req' = Idle
           ELSE /\ req' = Handling("exists", req.route, req.name, spec_path.val, Null)
                /\ resp' = resp
    /\ UNCHANGED <<fs, started, discovered_specs, funcVars>>

\* "if not spec_path.exists()"
CheckExists ==
    /\ req.pc = "exists"
    /\ IF ~Exists(req.path)
       THEN /\ resp' = HttpResponse(req.route, req.name, 404, MissingDetail(req.path), Null)
            /\ req' = Idle
       ELSE /\ req' = [req EXCEPT !.pc = "serve"]
            /\ resp' = resp
    /\ UNCHANGED <<fs, started, discovered_specs, funcVars>>

\* the try block: a FileResponse is returned for the framework to send, or the
\* file is opened, parsed and converted, or (info) opened, parsed and mined
Serve ==
    /\ req.pc = "serve"
    /\ IF Passthrough(req.route, req.path)
       THEN /\ req' = [req EXCEPT !.pc = "send"]
            /\ resp' = resp
       ELSE IF req.route = "info"
       THEN LET view == InfoLoaded(req.name, req.path, fs[req.path])
            IN  IF ~view.ok
                THEN /\ resp' = HttpResponse(req.route, req.name, 500,
                                             ErrorPrefix(req.route) \o view.exc, Null)
                     /\ req' = Idle
                ELSE /\ req' = [req EXCEPT !.pc = "stat_size", !.view = view.val]
                     /\ resp' = resp
       ELSE /\ resp' = Converted(req.route, req.name, req.path, fs[req.path])
            /\ req' = Idle
    /\ UNCHANGED <<fs, started, discovered_specs, funcVars>>

\* the framework sends the FileResponse: it stats the file and streams it
Send ==
    /\ req.pc = "send"
    /\ resp' = IF Exists(req.path)
               THEN HttpResponse(req.route, req.name, 200, "", fs[req.path])
               ELSE HttpResponse(req.route, req.name, 500, FrameworkError, Null)
    /\ req' = Idle
    /\ UNCHANGED <<fs, started, discovered_specs, funcVars>>

\* get_spec_info, line 369: spec_path.stat().st_size
StatSize ==
    /\ req.pc = "stat_size"
    /\ IF Exists(req.path)
       THEN /\ req' = [req EXCEPT !.pc = "stat_mtime"]
            /\ resp' = resp
       ELSE /\ resp' = HttpResponse(req.route, req.name, 500,
                                    ErrorPrefix(req.route) \o "FileNotFoundError", Null)
            /\ req' = Idle
    /\ UNCHANGED <<fs, started, discovered_specs, funcVars>>

\* get_spec_info, line 370: spec_path.stat().st_mtime, and the return
StatMtime ==
    /\ req.pc = "stat_mtime"
    /\ resp' = IF Exists(req.path)
               THEN HttpResponse(req.route, req.name, 200, "", req.view)
               ELSE HttpResponse(req.route, req.name, 500,
                                 ErrorPrefix(req.route) \o "FileNotFoundError", Null)
    /\ req' = Idle
    /\ UNCHANGED <<fs, started, discovered_specs, funcVars>>

\* GET / arrives
RootRequest ==
    /\ started
    /\ req = Idle
    /\ req' = RootLoop("root_exists", 1, <<>>)
    /\ resp' = NoResponse
    /\ UNCHANGED <<fs, started, discovered_specs, funcVars>>

\* root, line 137: the next spec of the index; "if not spec_path.exists(): continue"
RootExists ==
    /\ req.pc = "root_exists"
    /\ req.i <= Len(discovered_specs)
    /\ req' = IF Exists(discovered_specs[req.i][2])
              THEN [req EXCEPT !.pc = "root_load"]
              ELSE [req EXCEPT !.i = req.i + 1]
    /\ UNCHANGED <<fs, started, discovered_specs, resp, funcVars>>

\* root, lines 141-179: open, parse, build the collection or the fallback
RootLoad ==
    /\ req.pc = "root_load"
    /\ LET spec_name == discovered_specs[req.i][1]
           spec_path == discovered_specs[req.i][2]
       IN  req' = RootLoop("root_exists", req.i + 1,
                           req.collections \o RootItem(spec_name, spec_path, fs[spec_path]))
    /\ UNCHANGED <<fs, started, discovered_specs, resp, funcVars>>

\* root, line 181: return collections
RootReturn ==
    /\ req.pc = "root_exists"
    /\ req.i > Len(discovered_specs)
    /\ resp' = HttpResponse("root", "", 200, "", req.collections)
    /\ req' = Idle
    /\ UNCHANGED <<fs, started, discovered_specs, funcVars>>

Next ==
    \/ \E file \in FileNames : \E content \in ContentsOf(file) : FsWrite(file, content)
    \/ \E file \in FileNames : FsDelete(file)
    \/ Startup
    \/ \E route \in PerSpecRoutes : \E name \in RequestNames : Request(route, name)
    \/ Lookup
    \/ CheckExists
    \/ Serve
    \/ Send
    \/ StatSize
    \/ StatMtime
    \/ RootRequest
    \/ RootExists
    \/ RootLoad
    \/ RootReturn

Spec == Init /\ [][Next]_vars

-----------------------------------------------------------------------------
(* The pure functions, each run on inputs drawn from a bounded set.        *)
(* The server stands still: no file, not started, no request.              *)

ServerOff ==
    /\ fs = [file \in FileNames |-> Absent]
    /\ started = FALSE
    /\ discovered_specs = <<>>
    /\ req = Idle
    /\ resp = NoResponse

\* --- discover_specs' name derivation, twice ---

MaxNameParts == 4

NameParts == {"w", "open", "api", "openapi", "-", "_", ".", "-openapi", "_openapi"}

\* the stems made of at most n parts
RECURSIVE StemsOf(_)
StemsOf(n) == IF n = 0 THEN {""} ELSE {a \o b : a \in StemsOf(n - 1), b \in NameParts \cup {""}}

StemInputs == StemsOf(MaxNameParts) \ {""}

NameInit ==
    /\ ServerOff
    /\ fin \in {stem \o ".yaml" : stem \in StemInputs}
    /\ fout = <<>>
    /\ fpc = "start"

\* the scan meets the file fin
NameScan ==
    /\ fpc = "start"
    /\ GlobMatches(fin, ".yaml")
    /\ fout' = <<DeriveName(Stem(fin))>>
    /\ fpc' = "derived"
    /\ UNCHANGED <<fin, serverVars>>

\* a later scan meets the file name + ".yaml"
NameRescan ==
    /\ fpc = "derived"
    /\ fout' = Append(fout, DeriveName(Stem(fout[1] \o ".yaml")))
    /\ fpc' = "rederived"
    /\ UNCHANGED <<fin, serverVars>>

NameNext == NameScan \/ NameRescan

NameSpec == NameInit /\ [][NameNext]_vars

\* --- extract_tags_from_spec on documents with no declared tags ---

MaxTitleWords == 2

TitleWords == {"Weather", "API", "for", "Cities", "data.", "service,", "with", "!Forecast?"}

RECURSIVE TitlesOf(_)
TitlesOf(n) ==
    IF n = 0 THEN {""}
    ELSE TitlesOf(n - 1) \cup {IF a = "" THEN b ELSE a \o " " \o b :
                                 a \in TitlesOf(n - 1), b \in TitleWords}

TitleInputs == TitlesOf(MaxTitleWords) \cup {"Weather API for Cities"}

DescriptionInputs == {"", "Forecast information: cities, services."}

InfoDoc(title, description) ==
    M(<< <<S("info"), M(<< <<S("title"), S(title)>> >>
                        \o IF description = "" THEN <<>>
                           ELSE << <<S("description"), S(description)>> >>)>> >>)

TagsInit ==
    /\ ServerOff
    /\ fin \in {InfoDoc(title, description) : title \in TitleInputs,
                                               description \in DescriptionInputs}
    /\ fout = <<>>
    /\ fpc = "start"

TagsExtract ==
    /\ fpc = "start"
    /\ fout' = extract_tags_from_spec(fin, "spec")
    /\ fpc' = "done"
    /\ UNCHANGED <<fin, serverVars>>

TagsNext == TagsExtract

TagsSpec == TagsInit /\ [][TagsNext]_vars

\* --- both extractors on partial documents ---

Field(key, values) == {<<>>} \cup {<< <<S(key), v>> >> : v \in values}

OperationInputs ==
    {Null, M(<<>>),
     M(<< <<S("operationId"), Null>> >>),
     M(<< <<S("summary"), Null>> >>),
     M(<< <<S("operationId"), S("getPets")>>, <<S("summary"), S("List all pets")>> >>)}

PartialPaths ==
    {Null, M(<<>>), L(<<>>), M(<< <<S("/pets"), Null>> >>)}
        \cup {M(<< <<S("/pets"), M(<< <<S("get"), op>> >>)>> >>) : op \in OperationInputs}

PartialTags ==
    {Null, L(<<>>), L(<<S("Pets")>>), L(<< M(<< <<S("name"), S("Store")>> >>) >>),
     L(<< M(<< <<S("name"), Null>> >>) >>), L(<<Null>>)}

PartialInfos ==
    {Null, M(<<>>), M(<< <<S("title"), Null>> >>), M(<< <<S("title"), S("Pet Store")>> >>),
     M(<< <<S("description"), Null>> >>)}

PartialDocs ==
    {M(p \o g \o i) : p \in Field("paths", PartialPaths), g \in Field("tags", PartialTags),
                      i \in Field("info", PartialInfos)}

PartialInit ==
    /\ ServerOff
    /\ fin \in PartialDocs
    /\ fout = <<>>
    /\ fpc = "start"

PartialExtract ==
    /\ fpc = "start"
    /\ fout' = [tags |-> extract_tags_from_spec(fin, "spec"),
                capabilities |-> extract_capabilities_from_spec(fin)]
    /\ fpc' = "done"
    /\ UNCHANGED <<fin, serverVars>>

PartialNext == PartialExtract

PartialSpec == PartialInit /\ [][PartialNext]_vars

\* --- extract_capabilities_from_spec on documents with paths ---

MaxExtraPaths == 1

CapPaths == {"/weather/{id}", "/Weather/the/ab", "/{id}", "/get/pets"}
CapMethods == {"get", "POST", "parameters"}
CapOperationIds == {"getWeather", "get", "{id}", "ab", "Pets"}
CapSummaries == {"Get the weather for {id}", "List every single forecast daily"}

CapOperations ==
    {M(o \o u) : o \in Field("operationId", {S(x) : x \in CapOperationIds} \cup {I(7)}),
                 u \in Field("summary", {S(x) : x \in CapSummaries})}

\* paths that may follow the first one
ExtraPaths ==
    << <<S("/forecast/daily"), M(<< <<S("get"), M(<<>>)>> >>)>>,
       <<S("/Zones/{zone}/for"), M(<< <<S("put"), M(<< <<S("operationId"), S("ab")>> >>)>>,
                                       <<S("delete"), M(<< <<S("summary"), S("Drop {zone} zone")>> >>)>> >>)>>,
       <<S("/alerts"), M(<< <<S("patch"), M(<< <<S("operationId"), S("Alerts")>> >>)>> >>)>> >>

\* the ascending index sequences of length at most n into ExtraPaths
RECURSIVE ExtraChoices(_)
ExtraChoices(n) ==
    IF n = 0 THEN {<<>>}
    ELSE ExtraChoices(n - 1)
         \cup {Append(c, i) : c \in {d \in ExtraChoices(n - 1) : Len(d) = n - 1},
                              i \in 1..Len(ExtraPaths)}

AscendingChoices(n) ==
    {c \in ExtraChoices(n) : \A i \in 1..(Len(c) - 1) : c[i] < c[i + 1]}

CapDocs ==
    {M(<<>>), M(<< <<S("paths"), M(<<>>)>> >>)}
    \cup {M(<< <<S("paths"),
                 M(<< <<S(path), M(<< <<S(method), op>> >>)>> >>
                   \o [i \in 1..Len(c) |-> ExtraPaths[c[i]]])>> >>) :
            path \in CapPaths, method \in CapMethods, op \in CapOperations,
            c \in AscendingChoices(MaxExtraPaths)}

CapsInit ==
    /\ ServerOff
    /\ fin \in CapDocs
    /\ fout = <<>>
    /\ fpc = "start"

CapsExtract ==
    /\ fpc = "start"
    /\ fout' = extract_capabilities_from_spec(fin)
    /\ fpc' = "done"
    /\ UNCHANGED <<fin, serverVars>>

CapsNext == CapsExtract

CapsSpec == CapsInit /\ [][CapsNext]_vars

\* --- YAML -> JSON as GET /{name}/openapi.json does it, and back ---

YamlKeys == {S("description"), S("200"), I(200), I(-1), Null, B(TRUE)}

YamlValues ==
    {S("ok"), S(""), I(404), B(FALSE), Null, D("2024-01-01"), L(<<>>), M(<<>>),
     L(<<I(1), S("x"), Null>>), M(<< <<S("type"), S("object")>> >>),
     M(<< <<I(1), L(<< M(<< <<S("a"), B(TRUE)>> >>) >>)>> >>)}

\* the trees yaml.safe_load gives: a responses mapping with one or two entries
YamlTrees ==
    {M(<< <<S("responses"), M(<< <<k, v>> >>)>> >>) : k \in YamlKeys, v \in YamlValues}
    \cup {M(<< <<S("responses"), M(<< <<kk[1], S("ok")>>, <<kk[2], v>> >>)>>, <<S("n"), v>> >>) :
            kk \in {x \in YamlKeys \X YamlKeys : x[1] # x[2]}, v \in YamlValues}

JsonInit ==
    /\ ServerOff
    /\ fin \in YamlTrees
    /\ fout = <<>>
    /\ fpc = "start"

\* json_content = json.dumps(yaml_content, indent=2)
JsonEncode ==
    /\ fpc = "start"
    /\ fout' = JsonDumps(fin)
    /\ fpc' = "encoded"
    /\ UNCHANGED <<fin, serverVars>>

\* a client decodes the body
JsonDecode ==
    /\ fpc = "encoded"
    /\ fout.ok
    /\ fout' = JsonLoads(fout.val)
    /\ fpc' = "decoded"
    /\ UNCHANGED <<fin, serverVars>>

JsonNext == JsonEncode \/ JsonDecode

JsonSpec == JsonInit /\ [][JsonNext]_vars

-----------------------------------------------------------------------------
(* The claims                                                              *)

Answered == resp.status # 0

\* the request has just been answered by this step
Answers == req.pc # "idle" /\ req' = Idle

\* C1: on the four per-spec routes the answer is the 404 "Specification '<name>'
\* not found" exactly when <name> is no key of the index; the index is the
\* result of the startup scan and no later step changes it.
C1_UnknownNameIffNotIndexed ==
    /\ [](Answered /\ resp.route \in PerSpecRoutes =>
            ((resp.status = 404 /\ resp.detail = UnknownDetail(resp.name))
                <=> resp.name \notin IndexNames))
    /\ [][~started /\ started' => discovered_specs' = discover_specs(fs)]_vars
    /\ [][started => started' /\ discovered_specs' = discovered_specs]_vars

\* a file added after startup is in the directory, and its name is still unknown
C1_Witness ==
    /\ Answered /\ resp.route \in PerSpecRoutes
    /\ resp.name = "p" /\ resp.status = 404 /\ resp.detail = UnknownDetail("p")
    /\ Exists("p.json")
    /\ "w" \in IndexNames

\* what root's loop holds for the spec it is at
RootName == discovered_specs[req.i][1]
RootPath == discovered_specs[req.i][2]

\* the file root opens cannot be parsed, or its document cannot be mined
RootBroken ==
    /\ Exists(RootPath)
    /\ \/ ~Load(fs[RootPath]).ok
       \/ ~extract_tags_from_spec(Load(fs[RootPath]).val, RootName).ok
       \/ ~extract_capabilities_from_spec(Load(fs[RootPath]).val).ok
       \/ ~BuildCollection(RootName, Load(fs[RootPath]).val).ok

RootSupported == Lower(Suffix(RootPath)) \in SupportedSuffixes

\* root has just finished with one spec's file
RootLoaded == req.pc = "root_load" /\ req'.pc = "root_exists"

LastOf(seq) == seq[Len(seq)]

C3_OnePerDiscoveredSpec ==
    Answered /\ resp.route = "root" => Len(resp.body) = Len(discovered_specs)

\* C3, amended: at most one element per entry of the index. An entry whose file
\* is missing when root tests exists() adds none; an entry whose file is there
\* adds one (its Collection or the fallback), except that a file that opens and
\* has none of the three suffixes adds none.
C3_AtMostOnePerDiscoveredSpec ==
    /\ [](Answered /\ resp.route = "root" => Len(resp.body) <= Len(discovered_specs))
    /\ [](req.pc \in {"root_exists", "root_load"} => Len(req.collections) <= req.i - 1)
    /\ [][req.pc = "root_exists" /\ req'.pc = "root_exists" /\ req' # req =>
            ~Exists(RootPath) /\ req'.i = req.i + 1 /\ req'.collections = req.collections]_vars
    /\ [][req.pc = "root_exists" /\ req'.pc = "root_load" => Exists(RootPath)]_vars
    /\ [][RootLoaded =>
            /\ req'.i = req.i + 1
            /\ Len(req'.collections) = Len(req.collections)
                  + (IF Exists(RootPath) /\ ~RootSupported THEN 0 ELSE 1)]_vars
    /\ [][Answers /\ req.route = "root" =>
            req.i = Len(discovered_specs) + 1 /\ resp'.body = req.collections]_vars

\* a spec scanned at startup whose file is gone, and a listing shorter than the index
C3_Witness ==
    /\ Answered /\ resp.route = "root"
    /\ "w" \in IndexNames /\ "p" \in IndexNames
    /\ ~Exists("w-openapi.yaml") /\ Exists("p.json")
    /\ Len(resp.body) = 1
    /\ resp.body[1].openapi_spec = OpenapiUrl("p")

\* C4: the name derived from the file <name>.yaml is <name> again.
C4_NameDerivationIdempotent ==
    fpc = "rederived" => fout[2] = fout[1]

\* C5: with no declared tags, no tag returned is one of the tag stop words.
C5_NoStopWordTag ==
    fpc = "done" => fout.ok /\ fout.val \cap TagCommonWords = {}

\* C6: on every document tree both extractors return a list; none raises.
C6_ExtractorsNeverFail ==
    fpc = "done" => fout.tags.ok /\ fout.capabilities.ok

\* the operations of a document: the values under its paths' items
OperationsOf(doc) ==
    LET paths == Get(doc, "paths", M(<<>>)).m
    IN  UNION {{paths[i][2].m[j][2] : j \in 1..Len(paths[i][2].m)} : i \in 1..Len(paths)}

\* the path segments of a document, in lower case
SegmentsOf(doc) ==
    LET paths == Get(doc, "paths", M(<<>>)).m
    IN  UNION {Range(SplitOn(Lower(paths[i][1].s), "/")) : i \in 1..Len(paths)}

\* the operationIds of a document and the words of its summaries
IdsAndSummaryWordsOf(doc) ==
    UNION {{v.s : v \in {w \in {Get(op, "operationId", S(""))} : IsStr(w)}}
             \cup Range(Words(Lower(Get(op, "summary", S("")).s))) : op \in OperationsOf(doc)}

StrictlyAscending(seq) == \A i \in 1..(Len(seq) - 1) : StrLess(seq[i], seq[i + 1])

WeatherById ==
    M(<< <<S("paths"), M(<< <<S("/weather/{id}"), M(<< <<S("get"), M(<<>>)>> >>)>> >>)>> >>)

CapsReturned == fpc = "done" /\ fout.ok

\* C7, as claimed: the list is strictly ascending, holds no string of length
\* <= 2, no capability stop word and no path segment that starts with "{";
\* for /weather/{id} with a bare get it is ["weather"].
C7_CapabilitiesFiltered ==
    CapsReturned =>
        /\ StrictlyAscending(fout.val)
        /\ \A cap \in Range(fout.val) :
              /\ Len(cap) > 2
              /\ cap \notin CapCommonWords
              /\ ~(cap \in SegmentsOf(fin) /\ StartsWith(cap, "{"))
        /\ fin = WeatherById => fout.val = <<"weather">>

\* C7, amended: the same, but a string that starts with "{" is kept out only
\* as a path segment: it is in the list only when it is an operationId or a
\* word of a summary.
C7_CapabilitiesFilteredFromPaths ==
    CapsReturned =>
        /\ StrictlyAscending(fout.val)
        /\ \A cap \in Range(fout.val) :
              /\ Len(cap) > 2
              /\ cap \notin CapCommonWords
              /\ StartsWith(cap, "{") => cap \in IdsAndSummaryWordsOf(fin)
        /\ fin = WeatherById => fout.val = <<"weather">>

\* a path with a parameter, an operationId, and a summary that names the parameter
C7_Witness ==
    /\ CapsReturned
    /\ "{id}" \in SegmentsOf(fin)
    /\ "{id}" \in Range(fout.val)
    /\ "weather" \in Range(fout.val)
    /\ "getWeather" \in Range(fout.val)
    /\ Len(fout.val) >= 4

\* C8: encoding never fails, and decoding the JSON gives the tree back.
C8_JsonRoundTrip ==
    /\ fpc = "encoded" => fout.ok
    /\ fpc = "decoded" => DeepEq(fout, fin)

\* the requested format is the format of the file
SameFormat(route, spec_path) ==
    \/ route = "yaml" /\ Lower(Suffix(spec_path)) \in {".yaml", ".yml"}
    \/ route = "json" /\ Lower(Suffix(spec_path)) = ".json"

\* the handler of a document route reads a malformed file in this step, and answers
ReadsMalformed ==
    /\ req.pc \in {"serve", "send"}
    /\ req.route \in {"yaml", "json", "info"}
    /\ Lower(Suffix(req.path)) \in SupportedSuffixes
    /\ fs[req.path] = Malformed
    /\ req' = Idle

ParseErrorDetail == ErrorPrefix(req.route) \o "ParseError"

\* C9, as claimed: a malformed file is answered 500 with the parser's message
\* by openapi.yaml, openapi.json and info, whatever its format.
C9_MalformedIs500 ==
    [][ReadsMalformed => resp'.status = 500 /\ resp'.detail = ParseErrorDetail]_vars

\* C9, amended: info, and openapi.yaml / openapi.json when the file is in the
\* other format, answer 500 with the parser's message; when the file is in the
\* requested format it is not parsed and is sent as it is, with status 200.
C9_MalformedIs500UnlessSameFormat ==
    [][ReadsMalformed =>
          IF SameFormat(req.route, req.path)
          THEN resp'.status = 200 /\ resp'.body = Malformed
          ELSE resp'.status = 500 /\ resp'.detail = ParseErrorDetail /\ resp'.body = Null]_vars

\* a malformed YAML file served as it is by openapi.yaml
C9_Witness ==
    /\ Answered /\ resp.route = "yaml" /\ resp.name = "w"
    /\ resp.status = 200 /\ resp.body = Malformed
    /\ fs["w-openapi.yaml"] = Malformed

\* the handler touches the file in this step (exists, open, stat or the send),
\* the file is not there, and the handler answers
AccessesMissing ==
    /\ req.pc \in {"exists", "serve", "send", "stat_size", "stat_mtime"}
    /\ req.pc = "serve" /\ req.route # "info" => Lower(Suffix(req.path)) \in SupportedSuffixes
    /\ ~Exists(req.path)
    /\ req' = Idle

\* C10: a registered name whose file is missing when the handler accesses it
\* is answered 404, also when the file went after the exists() check.
C10_MissingFileIs404 ==
    [][AccessesMissing => resp'.status = 404]_vars

====
